---- MODULE Spec2Model ----
(***************************************************************************)
(* Model of pkg/bridge/bacalhau.go: the JobRunner that submits one remote  *)
(* Bacalhau job per contract order (xRunner.Create) and classifies the     *)
(* tracked running jobs from one remote List response                      *)
(* (xRunner.FindCompleted).                                                *)
(***************************************************************************)
EXTENDS Integers, Sequences, FiniteSets, TLC

\* ------------------------------------------------------------------ bounds
MaxTracked == 2       \* handles passed to one FindCompleted call
MaxResponse == 3      \* size of one List response: snapshots plus shard states
MaxConcurrency == 2   \* Spec.Deal.Concurrency of a job

\* --------------------------------------------------------- program constants
LilypadJobAnnotation == "lilypad-job"

\* the job identifiers the remote system hands out
JobIDs == {"j1", "j2"}

\* model.JobStateType: one non-terminal state and the three terminal ones
JobStateRunning == "Running"
JobStateError == "Error"
JobStateCompleted == "Completed"
JobStateCancelled == "Cancelled"
JobStateTypes == {JobStateRunning, JobStateError, JobStateCompleted, JobStateCancelled}

\* JobStateType.IsTerminal, as WaitForTerminalStates uses it
IsTerminal(s) == s \in {JobStateCompleted, JobStateError, JobStateCancelled}

\* ------------------------------------------------------------ pure helpers
RECURSIVE CountState(_, _)
CountState(states, t) ==
    IF states = << >> THEN 0
    ELSE (IF Head(states) = t THEN 1 ELSE 0) + CountState(Tail(states), t)

\* the total taken as the configured concurrency, without the floor of 1
GetJobTotalExecutionCount_Raw(bacjob) == bacjob.Concurrency

\* job.GetJobTotalExecutionCount(bacjob): concurrency (at least 1) times the
\* shard count of the execution plan (1 for the unsharded jobs modelled here)
GetJobTotalExecutionCount(bacjob) ==
    IF bacjob.Concurrency < 1 THEN 1 ELSE bacjob.Concurrency

\* the terminal-state test without the count of reported shards
WaitForTerminalStates_NoCount(totalShards, states) ==
    \A k \in 1..Len(states) : IsTerminal(states[k])

\* job.WaitForTerminalStates(totalShards)(state): (ok, err) with err always nil
WaitForTerminalStates(totalShards, states) ==
    /\ Len(states) >= totalShards
    /\ \A k \in 1..Len(states) : IsTerminal(states[k])

\* the completion test asking that every reported shard completed
WaitForJobStates_AllCompleted(totalShards, states) ==
    /\ CountState(states, JobStateCompleted) = totalShards
    /\ Len(states) = totalShards

\* the completion test satisfied by one completed shard
WaitForJobStates_AnyCompleted(totalShards, states) ==
    CountState(states, JobStateCompleted) >= 1

\* job.WaitForJobStates({Completed: totalShards})(state): ok, err always nil
WaitForJobStates(totalShards, states) ==
    CountState(states, JobStateCompleted) = totalShards

\* job.WaitThrowErrors([Error])(state): [ok, err]; a shard in an error state
\* gives (false, error), otherwise (true, nil)
WaitThrowErrors(states) ==
    IF \E k \in 1..Len(states) : states[k] = JobStateError
    THEN [ok |-> FALSE, err |-> "job has error state"]
    ELSE [ok |-> TRUE, err |-> "nil"]

\* ------------------------------------------------------- events and handles
OrderIds == {"o1", "o2"}

\* ContractSubmittedEvent.JobCreated(job): the running-job handle of an order
JobCreated(e, job) == [OrderId |-> e.OrderId, JobID |-> job.ID]

\* BacalhauJobRunningEvent.Completed() and .Failed(): the terminal events
Completed(j) == [kind |-> "completed", OrderId |-> j.OrderId, JobID |-> j.JobID]
Failed(j) == [kind |-> "failed", OrderId |-> j.OrderId, JobID |-> j.JobID]

\* ------------------------------------------------------------------ Create
\* an error value is the chain of its messages, outermost first; nil is empty
Nil == << >>
\* errors.Wrap(err, msg)
Wrap(err, msg) == <<msg>> \o err

\* a tag is the sequence of the parts its text is made of
SystemAnnotation == <<LilypadJobAnnotation>>

\* the tag naming the order: fmt.Sprintf("%s-%s", LilypadJobAnnotation, e.OrderId())
OrderAnnotation(orderId) == <<LilypadJobAnnotation, "-", orderId>>

\* the specification with the order tag only, the system-wide tag left out
JobSpec_NoMarker(e) ==
    [Concurrency |-> e.Spec.Concurrency,
     Annotations |-> e.Spec.Annotations \o <<OrderAnnotation(e.OrderId)>>]

\* the job Create hands to Submit: job.Spec = e.Spec() plus the two annotations
JobSpec(e) ==
    [Concurrency |-> e.Spec.Concurrency,
     Annotations |-> e.Spec.Annotations \o
                       <<SystemAnnotation, OrderAnnotation(e.OrderId)>>]

\* the identifier the remote system gives its n-th job
NextJobID(n) == IF n = 1 THEN "j1" ELSE "j2"

\* Client.Submit(ctx, job, nil): on success the job as the remote system
\* stored it; on failure an empty job and the error
ClientSubmit(remote, spec, err) ==
    IF err # Nil THEN [job |-> [ID |-> ""], err |-> err]
    ELSE [job |-> [ID |-> NextJobID(Len(remote) + 1), Concurrency |-> spec.Concurrency,
                   Annotations |-> spec.Annotations, State |-> << >>],
          err |-> Nil]

\* Create submitting a second time when the first Submit fails
Create_Retry(e, newJobErr, remote, submitErr) ==
    IF newJobErr # Nil
    THEN [handle |-> << >>, err |-> Wrap(newJobErr, "error creating Bacalhau job"),
          event |-> e, submitted |-> << >>]
    ELSE LET spec == JobSpec(e)
             r == ClientSubmit(remote, spec, submitErr)
         IN  [handle |-> <<JobCreated(e, r.job)>>,
              err |-> IF r.err # Nil
                      THEN Wrap(r.err, "error submitting Bacalhau job")
                      ELSE Nil,
              event |-> e,
              submitted |-> IF r.err # Nil THEN <<spec, spec>> ELSE <<spec>>]

\* xRunner.Create(ctx, e). newJobErr is the error of
\* NewJobWithSaneProductionDefaults; remote and submitErr decide what
\* Client.Submit returns. The result holds the two return values (the handle
\* is << >> for a nil interface value, <<h>> otherwise), the event as the
\* call leaves it and the specifications handed to Submit, one per call.
Create(e, newJobErr, remote, submitErr) ==
    IF newJobErr # Nil
    THEN [handle |-> << >>, err |-> Wrap(newJobErr, "error creating Bacalhau job"),
          event |-> e, submitted |-> << >>]
    ELSE LET spec == JobSpec(e)
             r == ClientSubmit(remote, spec, submitErr)
         IN  [handle |-> <<JobCreated(e, r.job)>>,
              err |-> IF r.err # Nil
                      THEN Wrap(r.err, "error submitting Bacalhau job")
                      ELSE Nil,
              event |-> e,
              submitted |-> <<spec>>]

\* the remote calls of one Create: one Submit per specification submitted
CreateCalls(r) == [k \in 1..Len(r.submitted) |-> "Submit"]

\* ------------------------------------------------------------ FindCompleted
\* the inner loop without its break: the last snapshot with the identifier wins
FirstMatch_Last(bacjobs, id) ==
    IF \E k \in 1..Len(bacjobs) : bacjobs[k].ID = id
    THEN CHOOSE k \in 1..Len(bacjobs) :
            /\ bacjobs[k].ID = id
            /\ \A m \in (k + 1)..Len(bacjobs) : bacjobs[m].ID # id
    ELSE 0

\* index of the first snapshot whose Metadata.ID is id, 0 when there is none
\* (the inner loop of FindCompleted: continue on mismatch, break on match)
FirstMatch(bacjobs, id) ==
    IF \E k \in 1..Len(bacjobs) : bacjobs[k].ID = id
    THEN CHOOSE k \in 1..Len(bacjobs) :
            /\ bacjobs[k].ID = id
            /\ \A m \in 1..(k - 1) : bacjobs[m].ID # id
    ELSE 0

\* the chain with the failure test read the other way round (ok && err == nil)
Classify_FlippedFailure(bacjob) ==
    LET totalShards == GetJobTotalExecutionCount(bacjob)
        hasErrors == WaitThrowErrors(bacjob.State)
    IN  IF ~WaitForTerminalStates(totalShards, bacjob.State) THEN "running"
        ELSE IF WaitForJobStates(totalShards, bacjob.State) THEN "completed"
        ELSE IF hasErrors.ok /\ hasErrors.err = "nil" THEN "failed"
        ELSE "unknown"

\* the chain ending in a failure for a terminal job that is neither
Classify_UnknownFailed(bacjob) ==
    LET totalShards == GetJobTotalExecutionCount(bacjob)
    IN  IF ~WaitForTerminalStates(totalShards, bacjob.State) THEN "running"
        ELSE IF WaitForJobStates(totalShards, bacjob.State) THEN "completed"
        ELSE "failed"

\* the if / else-if chain over the three predicates for one matched snapshot
Classify(bacjob) ==
    LET totalShards == GetJobTotalExecutionCount(bacjob)
        hasErrors == WaitThrowErrors(bacjob.State)
    IN  IF ~WaitForTerminalStates(totalShards, bacjob.State) THEN "running"
        ELSE IF WaitForJobStates(totalShards, bacjob.State) THEN "completed"
        ELSE IF ~hasErrors.ok \/ hasErrors.err # "nil" THEN "failed"
        ELSE "unknown"

\* a handle without a snapshot taken for a failed job
Outcome_MissingFailed(j, bacjobs) ==
    LET k == FirstMatch(bacjobs, j.JobID)
    IN  IF k = 0 THEN "failed" ELSE Classify(bacjobs[k])

\* the outcome of one tracked handle against the List response
Outcome(j, bacjobs) ==
    LET k == FirstMatch(bacjobs, j.JobID)
    IN  IF k = 0 THEN "unmatched" ELSE Classify(bacjobs[k])

\* the scan with the failure branch not chained by else to the completed one
RECURSIVE Scan_NoElse(_, _, _, _)
Scan_NoElse(jobs, bacjobs, completed, failed) ==
    IF jobs = << >> THEN [completed |-> completed, failed |-> failed]
    ELSE LET j == Head(jobs)
             k == FirstMatch(bacjobs, j.JobID)
             o == Outcome(j, bacjobs)
             errored == k # 0 /\ ~WaitThrowErrors(bacjobs[k].State).ok
         IN  Scan_NoElse(Tail(jobs), bacjobs,
                  IF o = "completed" THEN Append(completed, Completed(j)) ELSE completed,
                  IF o = "failed" \/ (o = "completed" /\ errored)
                  THEN Append(failed, Failed(j)) ELSE failed)

\* the scan putting each new event in front of the ones collected so far
RECURSIVE Scan_Prepend(_, _, _, _)
Scan_Prepend(jobs, bacjobs, completed, failed) ==
    IF jobs = << >> THEN [completed |-> completed, failed |-> failed]
    ELSE LET j == Head(jobs)
             o == Outcome(j, bacjobs)
         IN  Scan_Prepend(Tail(jobs), bacjobs,
                  IF o = "completed" THEN <<Completed(j)>> \o completed ELSE completed,
                  IF o = "failed" THEN <<Failed(j)>> \o failed ELSE failed)

RECURSIVE Scan(_, _, _, _)
Scan(jobs, bacjobs, completed, failed) ==
    IF jobs = << >> THEN [completed |-> completed, failed |-> failed]
    ELSE LET j == Head(jobs)
             o == Outcome(j, bacjobs)
         IN  Scan(Tail(jobs), bacjobs,
                  IF o = "completed" THEN Append(completed, Completed(j)) ELSE completed,
                  IF o = "failed" THEN Append(failed, Failed(j)) ELSE failed)

\* FindCompleted reporting every tracked job failed when the query fails
FindCompleted_FailOnError(jobs, list) ==
    IF list.err # "nil"
    THEN [completed |-> << >>, failed |-> [k \in 1..Len(jobs) |-> Failed(jobs[k])]]
    ELSE Scan(jobs, list.jobs, << >>, << >>)

\* xRunner.FindCompleted(ctx, jobs) given what Client.List returned
FindCompleted(jobs, list) ==
    IF list.err # "nil" THEN [completed |-> << >>, failed |-> << >>]
    ELSE Scan(jobs, list.jobs, << >>, << >>)

\* the slice filtered in place: classified handles dropped from the input
JobsAfter_Compacted(jobs, list) ==
    IF list.err # "nil" THEN jobs
    ELSE SelectSeq(jobs, LAMBDA j : Outcome(j, list.jobs) \notin {"completed", "failed"})

\* the caller's slice as FindCompleted leaves it: jobs is only ranged over
\* (line 72) and the results are appended to slices of their own
JobsAfter(jobs, list) == jobs

\* the remote calls of one FindCompleted: the List call ahead of the loops
FindCompletedCalls(jobs, list) == <<"List">>

\* ------------------------------------------------- inputs of FindCompleted
RECURSIVE SeqsUpTo(_, _)
SeqsUpTo(S, n) ==
    IF n = 0 THEN {<< >>}
    ELSE LET shorter == SeqsUpTo(S, n - 1)
         IN  shorter \cup {Append(q, x) : q \in {r \in shorter : Len(r) = n - 1}, x \in S}

\* the handle the caller tracks for a remote job
HandleOf(id) == [OrderId |-> IF id = "j1" THEN "o1" ELSE "o2", JobID |-> id]
Handles == {HandleOf(id) : id \in JobIDs}

\* the remote job snapshots with at most n shard states
Snapshots(n) ==
    [ID : JobIDs, Concurrency : 1..MaxConcurrency, State : SeqsUpTo(JobStateTypes, n)]

\* List responses of size (snapshots plus shard states) at most n
RECURSIVE Responses(_)
Responses(n) ==
    IF n <= 0 THEN {<< >>}
    ELSE {<< >>} \cup
         UNION {{<<b>> \o rest : rest \in Responses(n - 1 - Len(b.State))} :
                b \in Snapshots(n - 1)}

ListErrors == {"remote error", "context deadline exceeded", "context canceled"}
ListResults ==
    {[err |-> "nil", jobs |-> r] : r \in Responses(MaxResponse)}
      \cup {[err |-> x, jobs |-> << >>] : x \in ListErrors}

\* --------------------------------------------------------- the remote system
MaxRemoteShards == 2  \* shard states the remote system holds over all jobs

PageSize == 100

RECURSIVE Reverse(_)
Reverse(q) == IF q = << >> THEN << >> ELSE Append(Reverse(Tail(q)), Head(q))

\* Client.List(tag = LilypadJobAnnotation, maxJobs = 100, sortBy = created_at,
\* sortReverse = true) when it succeeds: the newest PageSize tagged jobs
List(remote) ==
    LET tagged == SelectSeq(remote, LAMBDA b :
                      \E k \in 1..Len(b.Annotations) : b.Annotations[k] = SystemAnnotation)
        newest == Reverse(tagged)
    IN  [k \in 1..(IF Len(newest) < PageSize THEN Len(newest) ELSE PageSize) |->
            [ID |-> newest[k].ID, Concurrency |-> newest[k].Concurrency,
             State |-> newest[k].State]]

\* the order events the contract delivers
Events ==
    [OrderId : OrderIds,
     Spec : [Concurrency : 0..MaxConcurrency, Annotations : {<< >>, << <<"user">> >>}]]

SubmitErrors == {Nil, <<"connection refused">>}
NewJobErrors == {Nil, <<"no defaults">>}

SumShards(remote) ==
    LET RECURSIVE Sum(_)
        Sum(q) == IF q = << >> THEN 0 ELSE Len(Head(q).State) + Sum(Tail(q))
    IN  Sum(remote)

\* ------------------------------------------------------------------- state
VARIABLES
    jobs,        \* the tracked handles passed to FindCompleted
    list,        \* what Client.List returns to this call
    completed,   \* first return value of FindCompleted
    failed,      \* second return value of FindCompleted
    pc,          \* "call"/"idle", "done" after FindCompleted, "created" after Create
    remoteJobs,  \* the remote system's jobs, oldest first
    running,     \* the caller's slice of tracked handles
    created,     \* what the last Create call returned, with its inputs
    reports,     \* per job id, how often the caller was handed an outcome and which
    calls,       \* the remote calls the last Create or FindCompleted call issued
    handlers     \* the handlers a mockRunner is configured with ("nil": unset)

vars == <<jobs, list, completed, failed, pc, remoteJobs, running, created, reports, calls, handlers>>

NoEvent == [OrderId |-> "", Spec |-> [Concurrency |-> 0, Annotations |-> << >>]]
NoCreate == [handle |-> << >>, err |-> Nil, event |-> NoEvent, submitted |-> << >>,
             e |-> NoEvent, submitErr |-> Nil, newJobErr |-> Nil]

\* an xRunner, or a mockRunner with neither handler set
NoHandlers == [CreateHandler |-> "nil", FindCompletedHandler |-> "nil"]

\* ------------------------------------------- FindCompleted as a pure function
FindInit ==
    /\ jobs = << >>
    /\ list = [err |-> "nil", jobs |-> << >>]
    /\ completed = << >>
    /\ failed = << >>
    /\ pc = "call"
    /\ remoteJobs = << >>
    /\ running = << >>
    /\ created = NoCreate
    /\ reports = [id \in JobIDs |-> << >>]
    /\ calls = << >>
    /\ handlers = NoHandlers

\* one call of FindCompleted on any tracked handles and any List result
FindCompletedCall ==
    /\ pc = "call"
    /\ \E h \in SeqsUpTo(Handles, MaxTracked), l \in ListResults :
         LET r == FindCompleted(h, l)
         IN  /\ jobs' = h
             /\ list' = l
             /\ completed' = r.completed
             /\ failed' = r.failed
             /\ calls' = FindCompletedCalls(h, l)
             /\ running' = JobsAfter(h, l)
    /\ pc' = "done"
    /\ UNCHANGED <<remoteJobs, created, reports, handlers>>

\* the caller has read the results and is ready for the next call
FindReturn ==
    /\ pc = "done"
    /\ jobs' = << >>
    /\ list' = [err |-> "nil", jobs |-> << >>]
    /\ completed' = << >>
    /\ failed' = << >>
    /\ pc' = "call"
    /\ calls' = << >>
    /\ running' = << >>
    /\ UNCHANGED <<remoteJobs, created, reports, handlers>>

FindNext == FindCompletedCall \/ FindReturn

FindSpec == FindInit /\ [][FindNext]_vars

\* --------------------------------------------------- the caller's life cycle
Init ==
    /\ jobs = << >>
    /\ list = [err |-> "nil", jobs |-> << >>]
    /\ completed = << >>
    /\ failed = << >>
    /\ pc = "idle"
    /\ remoteJobs = << >>
    /\ running = << >>
    /\ created = NoCreate
    /\ reports = [id \in JobIDs |-> << >>]
    /\ calls = << >>
    /\ handlers = NoHandlers

\* the caller calls Create for an order event
CreateCall ==
    /\ pc = "idle"
    /\ Len(remoteJobs) < Cardinality(JobIDs)
    /\ \E e \in Events, newJobErr \in NewJobErrors, submitErr \in SubmitErrors :
         LET r == Create(e, newJobErr, remoteJobs, submitErr)
         IN  /\ created' = [handle |-> r.handle, err |-> r.err, event |-> r.event,
                            submitted |-> r.submitted, e |-> e,
                            submitErr |-> IF r.submitted = << >> THEN Nil ELSE submitErr,
                            newJobErr |-> newJobErr]
             /\ remoteJobs' = IF r.submitted # << >> /\ submitErr = Nil
                              THEN Append(remoteJobs,
                                          ClientSubmit(remoteJobs, r.submitted[1], Nil).job)
                              ELSE remoteJobs
             /\ calls' = CreateCalls(r)
    /\ pc' = "created"
    /\ UNCHANGED <<jobs, list, completed, failed, running, reports, handlers>>

\* the caller keeps the handle of a successful Create
Track ==
    /\ pc = "created"
    /\ running' = IF created.err = Nil THEN running \o created.handle ELSE running
    /\ created' = NoCreate
    /\ pc' = "idle"
    /\ calls' = << >>
    /\ UNCHANGED <<jobs, list, completed, failed, remoteJobs, reports, handlers>>

\* a shard of a remote job is reported for the first time, not yet terminal
ShardAppears ==
    /\ pc = "idle"
    /\ SumShards(remoteJobs) < MaxRemoteShards
    /\ \E k \in 1..Len(remoteJobs) :
         remoteJobs' = [remoteJobs EXCEPT ![k].State = Append(@, JobStateRunning)]
    /\ UNCHANGED <<jobs, list, completed, failed, pc, running, created, reports, calls, handlers>>

\* a shard that is not terminal changes its state
ShardMoves ==
    /\ pc = "idle"
    /\ \E k \in 1..Len(remoteJobs) : \E n \in 1..Len(remoteJobs[k].State) :
         /\ ~IsTerminal(remoteJobs[k].State[n])
         /\ \E s \in JobStateTypes \ {remoteJobs[k].State[n]} :
              remoteJobs' = [remoteJobs EXCEPT ![k].State[n] = s]
    /\ UNCHANGED <<jobs, list, completed, failed, pc, running, created, reports, calls, handlers>>

\* one poll cycle: the caller calls FindCompleted with its tracked handles
Poll ==
    /\ pc = "idle"
    /\ jobs' = running
    /\ \/ list' = [err |-> "nil", jobs |-> List(remoteJobs)]
       \/ \E x \in ListErrors : list' = [err |-> x, jobs |-> << >>]
    /\ LET r == FindCompleted(running, list')
       IN  /\ completed' = r.completed
           /\ failed' = r.failed
    /\ calls' = FindCompletedCalls(running, list')
    /\ running' = JobsAfter(running, list')
    /\ pc' = "done"
    /\ UNCHANGED <<remoteJobs, created, reports, handlers>>

\* the caller retires the handles FindCompleted returned
Retire ==
    /\ pc = "done"
    /\ LET out == completed \o failed
           gone == {[OrderId |-> out[k].OrderId, JobID |-> out[k].JobID] : k \in 1..Len(out)}
       IN  /\ running' = SelectSeq(running, LAMBDA h : h \notin gone)
           /\ reports' = [id \in JobIDs |->
                            reports[id] \o
                              [k \in 1..Len(SelectSeq(out, LAMBDA ev : ev.JobID = id)) |->
                                 SelectSeq(out, LAMBDA ev : ev.JobID = id)[k].kind]]
    /\ jobs' = << >>
    /\ list' = [err |-> "nil", jobs |-> << >>]
    /\ completed' = << >>
    /\ failed' = << >>
    /\ pc' = "idle"
    /\ calls' = << >>
    /\ UNCHANGED <<remoteJobs, created, handlers>>

Next == CreateCall \/ Track \/ ShardAppears \/ ShardMoves \/ Poll \/ Retire

Spec == Init /\ [][Next]_vars

\* a poll whose list query succeeds
PollOk == Poll /\ list'.err = "nil"

\* the caller that keeps polling: every call returns to the caller (Track,
\* Retire), and the caller polls again and again with list queries that
\* succeed again and again
\* Create for the first order's events that carry no annotations of their own:
\* neither the order nor the caller's annotations are read by FindCompleted
LiveCreateCall ==
    /\ CreateCall
    /\ created'.e.OrderId = "o1"
    /\ created'.e.Spec.Annotations = << >>

LiveNext == LiveCreateCall \/ Track \/ ShardAppears \/ ShardMoves \/ Poll \/ Retire

LiveSpec ==
    Init /\ [][LiveNext]_vars /\ WF_vars(Track) /\ WF_vars(Retire) /\ SF_vars(PollOk)

\* --------------------------------------------------------------- mockRunner
\* model.NewJob(): a job the remote system has given no identifier
NewJob == [ID |-> ""]

\* job.(BacalhauJobCompletedEvent) and job.(BacalhauJobFailedEvent): the same
\* event object, held as a terminal event of that kind
AssertEvent(job, kind) == [kind |-> kind, OrderId |-> job.OrderId, JobID |-> job.JobID]

SuccessfulCreate(cse) == [handle |-> <<JobCreated(cse, NewJob)>>, err |-> Nil]

ErrorCreate(cse) == [handle |-> << >>, err |-> <<"error creating job">>]

SuccssfulFind(js) ==
    [completed |-> [k \in 1..Len(js) |-> AssertEvent(js[k], "completed")],
     failed |-> << >>]

FailedFind(js) ==
    [completed |-> << >>,
     failed |-> [k \in 1..Len(js) |-> AssertEvent(js[k], "failed")]]

\* the values a RunnerCreateHandler / RunnerFindCompletedHandler field can hold
CreateHandlers == {"nil", "SuccessfulCreate", "ErrorCreate"}
FindCompletedHandlers == {"nil", "SuccssfulFind", "FailedFind"}

\* the call mock.CreateHandler(ctx, job)
CallCreateHandler(h, job) ==
    IF h = "ErrorCreate" THEN ErrorCreate(job) ELSE SuccessfulCreate(job)

\* the call mock.FindCompletedHandler(ctx, jobs)
CallFindCompletedHandler(h, js) ==
    IF h = "FailedFind" THEN FailedFind(js) ELSE SuccssfulFind(js)

\* the mock falling back to the failing handler when none is set
MockCreate_DefaultError(mock, job) ==
    IF mock.CreateHandler # "nil" THEN CallCreateHandler(mock.CreateHandler, job)
    ELSE ErrorCreate(job)

\* mockRunner.Create
MockCreate(mock, job) ==
    IF mock.CreateHandler # "nil" THEN CallCreateHandler(mock.CreateHandler, job)
    ELSE SuccessfulCreate(job)

\* mockRunner.FindCompleted
MockFindCompleted(mock, js) ==
    IF mock.FindCompletedHandler # "nil"
    THEN CallFindCompletedHandler(mock.FindCompletedHandler, js)
    ELSE SuccssfulFind(js)

\* a mockRunner built with any choice of handlers, set or unset
MockInit ==
    /\ jobs = << >>
    /\ list = [err |-> "nil", jobs |-> << >>]
    /\ completed = << >>
    /\ failed = << >>
    /\ pc = "idle"
    /\ remoteJobs = << >>
    /\ running = << >>
    /\ created = NoCreate
    /\ reports = [id \in JobIDs |-> << >>]
    /\ calls = << >>
    /\ handlers \in [CreateHandler : CreateHandlers, FindCompletedHandler : FindCompletedHandlers]

MockCreateCall ==
    /\ pc = "idle"
    /\ \E e \in Events :
          LET r == MockCreate(handlers, e)
          IN  created' = [NoCreate EXCEPT !.handle = r.handle, !.err = r.err,
                                          !.event = e, !.e = e]
    /\ pc' = "created"
    /\ UNCHANGED <<jobs, list, completed, failed, remoteJobs, running, reports, calls, handlers>>

MockFindCompletedCall ==
    /\ pc = "idle"
    /\ \E h \in SeqsUpTo(Handles, MaxTracked) :
          LET r == MockFindCompleted(handlers, h)
          IN  /\ jobs' = h
              /\ completed' = r.completed
              /\ failed' = r.failed
    /\ pc' = "done"
    /\ UNCHANGED <<list, remoteJobs, running, created, reports, calls, handlers>>

\* the test has read what the mock returned
MockReturn ==
    /\ pc \in {"created", "done"}
    /\ jobs' = << >>
    /\ completed' = << >>
    /\ failed' = << >>
    /\ created' = NoCreate
    /\ pc' = "idle"
    /\ UNCHANGED <<list, remoteJobs, running, reports, calls, handlers>>

MockNext == MockCreateCall \/ MockFindCompletedCall \/ MockReturn

MockSpec == MockInit /\ [][MockNext]_vars

\* ================================================================== claims
InSeq(x, q) == \E k \in 1..Len(q) : q[k] = x

\* snapshot k of the response is the one FindCompleted uses for handle i:
\* the first in list order with the handle's job identifier
IsMatch(i, k) ==
    /\ list.jobs[k].ID = jobs[i].JobID
    /\ \A m \in 1..(k - 1) : list.jobs[m].ID # jobs[i].JobID

AllTerminal(b) ==
    /\ Len(b.State) >= GetJobTotalExecutionCount(b)
    /\ \A n \in 1..Len(b.State) : b.State[n] \in {JobStateCompleted, JobStateError, JobStateCancelled}

NumCompleted(b) == Cardinality({n \in 1..Len(b.State) : b.State[n] = JobStateCompleted})
HasError(b) == \E n \in 1..Len(b.State) : b.State[n] = JobStateError

\* C1: Create returns either a handle for the event's order and a nil error,
\* or a non-nil error and no handle; never both a handle and an error.
C1_HandleXorError ==
    pc = "created" =>
        \/ /\ created.err = Nil
           /\ created.handle # << >>
           /\ created.handle[1].OrderId = created.e.OrderId
        \/ /\ created.err # Nil
           /\ created.handle = << >>

\* C2: the completed events are Completed() of tracked handles, the failed
\* events are Failed() of tracked handles, and no tracked handle is in both.
C2_SubsetsAndDisjoint ==
    pc = "done" =>
        /\ \A k \in 1..Len(completed) : \E i \in 1..Len(jobs) :
              completed[k] = [kind |-> "completed", OrderId |-> jobs[i].OrderId,
                              JobID |-> jobs[i].JobID]
        /\ \A k \in 1..Len(failed) : \E i \in 1..Len(jobs) :
              failed[k] = [kind |-> "failed", OrderId |-> jobs[i].OrderId,
                           JobID |-> jobs[i].JobID]
        /\ \A i \in 1..Len(jobs) :
              ~(InSeq(Completed(jobs[i]), completed) /\ InSeq(Failed(jobs[i]), failed))

\* two different handles tracked, one of them returned
C2_Witness ==
    /\ pc = "done"
    /\ Len(jobs) = 2
    /\ jobs[1] # jobs[2]
    /\ Len(completed) + Len(failed) = 1

\* C3: with the caller retiring what FindCompleted returns, a job is reported
\* at most once over all poll cycles, and per job the caller sees only
\* running -> running, running -> completed and running -> failed.
Status(id) ==
    IF reports[id] # << >> THEN reports[id][1]
    ELSE IF \E k \in 1..Len(running) : running[k].JobID = id THEN "running"
    ELSE "none"

C3_ReportedAtMostOnce ==
    /\ [](\A id \in JobIDs : Len(reports[id]) <= 1)
    /\ [][\A id \in JobIDs :
            /\ reports[id] # << >> => reports'[id] = reports[id]
            /\ <<Status(id), Status(id)'>> \in
                 {<<"none", "none">>, <<"none", "running">>, <<"running", "running">>,
                  <<"running", "completed">>, <<"running", "failed">>,
                  <<"completed", "completed">>, <<"failed", "failed">>}]_vars

\* a later poll cycle in which the remote system still lists a retired job
\* as finished
C3_Witness ==
    /\ pc = "done"
    /\ list.err = "nil"
    /\ \E id \in JobIDs : \E k \in 1..Len(list.jobs) :
          /\ Len(reports[id]) = 1
          /\ list.jobs[k].ID = id
          /\ AllTerminal(list.jobs[k])
          /\ (NumCompleted(list.jobs[k]) = GetJobTotalExecutionCount(list.jobs[k])
                \/ HasError(list.jobs[k]))

\* C4: a handle whose matched snapshot reports fewer shard states than the
\* total, or a shard that is not terminal, is in neither result.
C4_StillRunningUnclassified ==
    (pc = "done" /\ list.err = "nil") =>
        \A i \in 1..Len(jobs) : \A k \in 1..Len(list.jobs) :
            (IsMatch(i, k) /\ ~AllTerminal(list.jobs[k])) =>
                /\ ~InSeq(Completed(jobs[i]), completed)
                /\ ~InSeq(Failed(jobs[i]), failed)

\* an errored shard beside one still running
C4_Witness ==
    /\ pc = "done"
    /\ list.err = "nil"
    /\ \E i \in 1..Len(jobs) : \E k \in 1..Len(list.jobs) :
          /\ IsMatch(i, k)
          /\ list.jobs[k].State = <<JobStateError, JobStateRunning>>

\* C5 as stated: a matched snapshot with as many completed shards as the
\* total (at least 1) puts the handle in the completed result.
C5_CompletedCountEqualsTotal ==
    (pc = "done" /\ list.err = "nil") =>
        \A i \in 1..Len(jobs) : \A k \in 1..Len(list.jobs) :
            (/\ IsMatch(i, k)
             /\ GetJobTotalExecutionCount(list.jobs[k]) >= 1
             /\ NumCompleted(list.jobs[k]) = GetJobTotalExecutionCount(list.jobs[k])) =>
                InSeq(Completed(jobs[i]), completed)

\* C5 amended: a matched snapshot with as many completed shards as the total
\* (at least 1) and every reported shard terminal puts the handle in the
\* completed result.
C5_CompletedWhenAllTerminal ==
    (pc = "done" /\ list.err = "nil") =>
        \A i \in 1..Len(jobs) : \A k \in 1..Len(list.jobs) :
            (/\ IsMatch(i, k)
             /\ GetJobTotalExecutionCount(list.jobs[k]) >= 1
             /\ NumCompleted(list.jobs[k]) = GetJobTotalExecutionCount(list.jobs[k])
             /\ \A n \in 1..Len(list.jobs[k].State) :
                   list.jobs[k].State[n] \in {JobStateCompleted, JobStateError, JobStateCancelled}) =>
                InSeq(Completed(jobs[i]), completed)

\* completed although one more shard, cancelled, is reported beside the
\* completed ones
C5_Witness ==
    /\ pc = "done"
    /\ list.err = "nil"
    /\ \E i \in 1..Len(jobs) : \E k \in 1..Len(list.jobs) :
          /\ IsMatch(i, k)
          /\ NumCompleted(list.jobs[k]) = GetJobTotalExecutionCount(list.jobs[k])
          /\ Len(list.jobs[k].State) > NumCompleted(list.jobs[k])
          /\ InSeq(Completed(jobs[i]), completed)

\* C6: when the List call fails, both results are empty whatever is tracked.
C6_QueryFailureYieldsNothing ==
    (pc = "done" /\ list.err # "nil") => (completed = << >> /\ failed = << >>)

C6_Witness ==
    /\ pc = "done"
    /\ list.err = "context deadline exceeded"
    /\ Len(jobs) = MaxTracked

\* C7: a handle whose job identifier is in no snapshot is in neither result,
\* and the results are those of the call without that handle.
RemoveAt(q, i) == SubSeq(q, 1, i - 1) \o SubSeq(q, i + 1, Len(q))

C7_UnmatchedOmitted ==
    (pc = "done" /\ list.err = "nil") =>
        \A i \in 1..Len(jobs) :
            (\A k \in 1..Len(list.jobs) : list.jobs[k].ID # jobs[i].JobID) =>
                /\ ~InSeq(Completed(jobs[i]), completed)
                /\ ~InSeq(Failed(jobs[i]), failed)
                /\ FindCompleted(RemoveAt(jobs, i), list)
                     = [completed |-> completed, failed |-> failed]

C7_Witness ==
    /\ pc = "done"
    /\ list.err = "nil"
    /\ Len(completed) + Len(failed) > 0
    /\ \E i \in 1..Len(jobs) : \A k \in 1..Len(list.jobs) : list.jobs[k].ID # jobs[i].JobID

\* C9: a matched snapshot with every shard terminal, a completed count other
\* than the total and a shard in the error state puts the handle in the
\* failed result and not in the completed one.
C9_ErroredIsFailed ==
    (pc = "done" /\ list.err = "nil") =>
        \A i \in 1..Len(jobs) : \A k \in 1..Len(list.jobs) :
            (/\ IsMatch(i, k)
             /\ AllTerminal(list.jobs[k])
             /\ NumCompleted(list.jobs[k]) # GetJobTotalExecutionCount(list.jobs[k])
             /\ HasError(list.jobs[k])) =>
                /\ InSeq(Failed(jobs[i]), failed)
                /\ ~InSeq(Completed(jobs[i]), completed)

\* two shards in total, one completed and one errored
C9_Witness ==
    /\ pc = "done"
    /\ list.err = "nil"
    /\ \E i \in 1..Len(jobs) : \E k \in 1..Len(list.jobs) :
          /\ IsMatch(i, k)
          /\ GetJobTotalExecutionCount(list.jobs[k]) = 2
          /\ list.jobs[k].State = <<JobStateCompleted, JobStateError>>
          /\ InSeq(Failed(jobs[i]), failed)

\* C10: when Submit fails, Create returns that error wrapped with the
\* submission message, has called Submit exactly once, and leaves the event
\* as it was.
C10_SubmitFailureReturned ==
    (pc = "created" /\ created.submitErr # Nil) =>
        /\ created.err = <<"error submitting Bacalhau job">> \o created.submitErr
        /\ Len(created.submitted) = 1
        /\ created.event = created.e

C10_Witness ==
    /\ pc = "created"
    /\ created.submitErr # Nil
    /\ created.e.Spec.Annotations # << >>
    /\ remoteJobs # << >>

\* C11 as stated: a handle is in the completed result only if every shard of
\* the matched snapshot completed; a reported shard in the error state or in
\* another terminal state that is not completed keeps it out of that result.
C11_NoErroredShardWhenCompleted ==
    (pc = "done" /\ list.err = "nil") =>
        \A i \in 1..Len(jobs) : \A k \in 1..Len(list.jobs) :
            (/\ IsMatch(i, k)
             /\ \E n \in 1..Len(list.jobs[k].State) :
                   list.jobs[k].State[n] \in {JobStateError, JobStateCancelled}) =>
                ~InSeq(Completed(jobs[i]), completed)

\* C11 amended: a handle is in the completed result only if the matched
\* snapshot has as many completed shards as the total; a reported shard in the
\* error state or in another terminal state that is not completed keeps it out
\* of that result when no more shard states are reported than the total.
C11_CompletedOnlyIfCountIsTotal ==
    (pc = "done" /\ list.err = "nil") =>
        \A i \in 1..Len(jobs) :
            /\ InSeq(Completed(jobs[i]), completed) =>
                  \E k \in 1..Len(list.jobs) :
                      /\ IsMatch(i, k)
                      /\ NumCompleted(list.jobs[k]) = GetJobTotalExecutionCount(list.jobs[k])
            /\ \A k \in 1..Len(list.jobs) :
                  (/\ IsMatch(i, k)
                   /\ Len(list.jobs[k].State) <= GetJobTotalExecutionCount(list.jobs[k])
                   /\ \E n \in 1..Len(list.jobs[k].State) :
                         list.jobs[k].State[n] \in {JobStateError, JobStateCancelled}) =>
                      ~InSeq(Completed(jobs[i]), completed)

\* two shards in total, one completed and one cancelled: not completed
C11_Witness ==
    /\ pc = "done"
    /\ list.err = "nil"
    /\ \E i \in 1..Len(jobs) : \E k \in 1..Len(list.jobs) :
          /\ IsMatch(i, k)
          /\ GetJobTotalExecutionCount(list.jobs[k]) = 2
          /\ list.jobs[k].State = <<JobStateCompleted, JobStateCancelled>>
          /\ ~InSeq(Completed(jobs[i]), completed)

\* C12: a matched snapshot with every shard terminal, a completed count other
\* than the total and no shard in the error state gives no outcome, in every
\* poll cycle in which the remote system reports it so, and the caller keeps
\* the handle in its tracked set.
UnknownState(b) == AllTerminal(b) /\ NumCompleted(b) # GetJobTotalExecutionCount(b) /\ ~HasError(b)

StuckHandles ==
    IF pc = "done" /\ list.err = "nil"
    THEN {jobs[i] : i \in {n \in 1..Len(jobs) :
                             \E k \in 1..Len(list.jobs) :
                                 IsMatch(n, k) /\ UnknownState(list.jobs[k])}}
    ELSE {}

C12_UnknownStaysRunning ==
    /\ [](\A h \in StuckHandles :
             ~InSeq(Completed(h), completed) /\ ~InSeq(Failed(h), failed))
    /\ [][\A h \in StuckHandles :
             /\ \E k \in 1..Len(running') : running'[k] = h
             /\ reports'[h.JobID] = << >>]_vars

\* a poll cycle, after an earlier one retired the other job, that finds a
\* job with its only shard cancelled
C12_Witness ==
    /\ StuckHandles # {}
    /\ \E id \in JobIDs : reports[id] # << >>

\* C13: FindCompleted leaves the caller's list of tracked handles as it was
\* passed (same handles, same order, same length), on the query-failure path
\* and when handles are classified.
C13_InputUnchanged ==
    pc = "done" => running = jobs

\* two handles passed, one of them classified
C13_Witness ==
    /\ pc = "done"
    /\ Len(jobs) = 2
    /\ Len(completed) + Len(failed) = 1
    /\ running = jobs

\* C14: every job Create submits carries the system-wide tag and the tag made
\* of the system-wide token, a hyphen and the order identifier, after the tags
\* of the event's specification; every job the remote system got from Create
\* passes the tag filter of the List query.
C14_SubmittedJobsAreTagged ==
    /\ pc = "created" =>
          \A k \in 1..Len(created.submitted) :
              LET tags == created.submitted[k].Annotations
                  own == Len(created.e.Spec.Annotations)
              IN  /\ Len(tags) = own + 2
                  /\ SubSeq(tags, 1, own) = created.e.Spec.Annotations
                  /\ \E n \in 1..Len(tags) : tags[n] = <<"lilypad-job">>
                  /\ \E n \in 1..Len(tags) :
                        tags[n] = <<"lilypad-job", "-", created.e.OrderId>>
    /\ \A k \in 1..Len(remoteJobs) :
          /\ \E n \in 1..Len(remoteJobs[k].Annotations) :
                remoteJobs[k].Annotations[n] = <<"lilypad-job">>
          /\ \E m \in 1..Len(List(remoteJobs)) : List(remoteJobs)[m].ID = remoteJobs[k].ID

\* a submitted job of an event that brings a tag of its own
C14_Witness ==
    /\ pc = "created"
    /\ created.err = Nil
    /\ created.e.Spec.Annotations = << <<"user">> >>
    /\ Len(remoteJobs) = 2

\* the response without the snapshots that repeat the identifier of an earlier one
RECURSIVE DropRepeats(_)
DropRepeats(q) ==
    IF q = << >> THEN << >>
    ELSE LET init == DropRepeats(SubSeq(q, 1, Len(q) - 1))
             last == q[Len(q)]
         IN  IF \E m \in 1..(Len(q) - 1) : q[m].ID = last.ID THEN init
             ELSE Append(init, last)

HasRepeat(i) ==
    Cardinality({k \in 1..Len(list.jobs) : list.jobs[k].ID = jobs[i].JobID}) >= 2

\* C15: when the response holds several snapshots with a tracked handle's
\* identifier, the handle is classified from the first of them in list order
\* only: it is completed (failed) exactly when that first snapshot is, never
\* both, and the later snapshots with the same identifier change nothing.
C15_FirstSnapshotDecides ==
    (pc = "done" /\ list.err = "nil") =>
        /\ \A i \in 1..Len(jobs) : \A k \in 1..Len(list.jobs) :
              (HasRepeat(i) /\ IsMatch(i, k)) =>
                 LET b == list.jobs[k]
                     done == AllTerminal(b) /\ NumCompleted(b) = GetJobTotalExecutionCount(b)
                     bad == AllTerminal(b) /\ NumCompleted(b) # GetJobTotalExecutionCount(b) /\ HasError(b)
                 IN  /\ InSeq(Completed(jobs[i]), completed) <=> done
                     /\ InSeq(Failed(jobs[i]), failed) <=> bad
                     /\ ~(InSeq(Completed(jobs[i]), completed) /\ InSeq(Failed(jobs[i]), failed))
        /\ FindCompleted(jobs, [list EXCEPT !.jobs = DropRepeats(list.jobs)])
              = [completed |-> completed, failed |-> failed]

\* first snapshot still running, second completed: no outcome
C15_Witness ==
    /\ pc = "done" /\ list.err = "nil" /\ Len(jobs) = 1
    /\ Len(list.jobs) = 2
    /\ list.jobs[1].ID = jobs[1].JobID /\ list.jobs[2].ID = jobs[1].JobID
    /\ list.jobs[1].State = << >>
    /\ list.jobs[2].State = <<JobStateCompleted>> /\ list.jobs[2].Concurrency = 1
    /\ completed = << >> /\ failed = << >>

\* C16 as stated: one list call per FindCompleted and one submit call per
\* Create, whatever the inputs.
C16_OneCallEach ==
    /\ pc = "done" => calls = <<"List">>
    /\ pc = "created" => calls = <<"Submit">>

\* C16: each FindCompleted invocation issues exactly one list call and no
\* other remote call, whatever the number of tracked handles; each Create
\* invocation issues exactly one submit call and no other remote call, except
\* that it issues no remote call at all when constructing the job fails.
C16_OneCallUnlessConstructionFails ==
    /\ pc = "done" => calls = <<"List">>
    /\ pc = "created" =>
          calls = (IF created.newJobErr # Nil THEN << >> ELSE <<"Submit">>)

C16_Witness ==
    /\ pc = "created" /\ created.newJobErr # Nil
    /\ calls = << >> /\ Len(running) = 1

\* the handles at the positions S of the first n tracked handles, in input order
RECURSIVE InOrder(_, _)
InOrder(n, S) ==
    IF n = 0 THEN << >>
    ELSE IF n \in S THEN Append(InOrder(n - 1, S), jobs[n])
    ELSE InOrder(n - 1, S)

\* C17: completed plus failed events are at most as many as the tracked
\* handles passed in, each input position contributing at most one outcome,
\* and each returned collection lists its events in the relative order of
\* their handles in the input.
C17_BoundedAndInInputOrder ==
    pc = "done" =>
        /\ Len(completed) + Len(failed) <= Len(jobs)
        /\ \E S \in SUBSET (1..Len(jobs)) : \E T \in SUBSET ((1..Len(jobs)) \ S) :
              /\ completed = [k \in 1..Cardinality(S) |-> Completed(InOrder(Len(jobs), S)[k])]
              /\ failed = [k \in 1..Cardinality(T) |-> Failed(InOrder(Len(jobs), T)[k])]

\* two jobs completed in one poll while the query lists them newest first
C17_Witness ==
    /\ pc = "done" /\ list.err = "nil" /\ Len(completed) = 2
    /\ Len(list.jobs) = 2 /\ jobs[1].JobID # jobs[2].JobID
    /\ list.jobs[1].ID = jobs[2].JobID /\ list.jobs[2].ID = jobs[1].JobID

\* a matched snapshot of a job configured with no concurrency that reports no
\* shard states
EmptySnapshot(b) == b.Concurrency = 0 /\ b.State = << >>

Tracked(id) == \E k \in 1..Len(running) : running[k].JobID = id

\* the snapshots a successful list query would return now for job id
Reported(id) ==
    {List(remoteJobs)[k] : k \in {n \in 1..Len(List(remoteJobs)) : List(remoteJobs)[n].ID = id}}

RemoteCompleted(id) ==
    \E b \in Reported(id) : AllTerminal(b) /\ NumCompleted(b) = GetJobTotalExecutionCount(b)
RemoteErrored(id) == \E b \in Reported(id) : AllTerminal(b) /\ HasError(b)
RemoteFailed(id) ==
    \E b \in Reported(id) :
        AllTerminal(b) /\ HasError(b) /\ NumCompleted(b) # GetJobTotalExecutionCount(b)

ReturnedCompleted(id) == pc = "done" /\ \E k \in 1..Len(completed) : completed[k].JobID = id
ReturnedFailed(id) == pc = "done" /\ \E k \in 1..Len(failed) : failed[k].JobID = id

\* a tracked handle absent from the snapshots returned is not classified
AbsentUnclassified ==
    pc = "done" =>
        \A i \in 1..Len(jobs) :
            (\A k \in 1..Len(list.jobs) : list.jobs[k].ID # jobs[i].JobID) =>
                ~InSeq(Completed(jobs[i]), completed) /\ ~InSeq(Failed(jobs[i]), failed)

Settled(id) == RemoteCompleted(id) \/ RemoteFailed(id)

ReturnedAsReported(id) ==
    \/ RemoteCompleted(id) /\ ReturnedCompleted(id)
    \/ RemoteFailed(id) /\ ReturnedFailed(id)

C20_MockDelegatesOrSucceeds ==
    /\ pc = "created" =>
          /\ handlers.CreateHandler \in {"nil", "SuccessfulCreate"} =>
                /\ created.err = Nil
                /\ Len(created.handle) = 1
                /\ created.handle[1].OrderId = created.e.OrderId
          /\ handlers.CreateHandler = "ErrorCreate" =>
                created.handle = << >> /\ created.err # Nil
    /\ pc = "done" =>
          /\ handlers.FindCompletedHandler \in {"nil", "SuccssfulFind"} =>
                /\ Len(completed) = Len(jobs)
                /\ \A k \in 1..Len(jobs) :
                      /\ completed[k].kind = "completed"
                      /\ completed[k].OrderId = jobs[k].OrderId
                      /\ completed[k].JobID = jobs[k].JobID
                /\ failed = << >>
          /\ handlers.FindCompletedHandler = "FailedFind" =>
                /\ completed = << >>
                /\ Len(failed) = Len(jobs)
                /\ \A k \in 1..Len(jobs) :
                      /\ failed[k].kind = "failed"
                      /\ failed[k].OrderId = jobs[k].OrderId
                      /\ failed[k].JobID = jobs[k].JobID

\* a mock with no FindCompleted handler handed two different handles
C20_Witness ==
    /\ pc = "done" /\ handlers.FindCompletedHandler = "nil"
    /\ Len(jobs) = 2 /\ jobs[1] # jobs[2] /\ Len(completed) = 2
====
